---- MODULE Spec2Model ----
(***************************************************************************)
(* State-machine model of app.py: one process-wide chess board, the /move, *)
(* /reset and /get_fen handlers, and the negotiation with the LLM client   *)
(* (get_llm_move, parse_llm_response, get_random_move_with_thoughts).      *)
(*                                                                         *)
(* Text is modelled as a sequence of one-character strings, so that        *)
(* strip, splitlines, the UCI regular expression, Move.uci and             *)
(* Move.from_uci are computed character by character.                      *)
(*                                                                         *)
(* The python-chess calls app.py makes (legal_moves, parse_uci, push,      *)
(* piece_at, is_game_over, ...) are modelled by the rules of chess on the  *)
(* 8x8 board.  Castling and en passant are left out: no position the model *)
(* reaches within its bounds has a castling or en-passant move.            *)
(*                                                                         *)
(* Under Spec requests are handled one at a time: a request is received    *)
(* when the one before has been answered.  ConcurrentSpec lets the handler *)
(* of another request run while a /move is blocked in a call of the LLM    *)
(* client.  ParserSpec calls parse_llm_response on its own.  The fields of *)
(* a /move request body are JSON strings.                                  *)
(***************************************************************************)
EXTENDS Integers, Sequences, FiniteSets, TLC

\* ------------------------------------------------------------------------
\* chess: squares, pieces, names
\* ------------------------------------------------------------------------

WHITE == TRUE
BLACK == FALSE

PAWN == "p"
KNIGHT == "n"
BISHOP == "b"
ROOK == "r"
QUEEN == "q"
KING == "k"

\* chess.PIECE_SYMBOLS without its leading None
PIECE_SYMBOLS == <<"p", "n", "b", "r", "q", "k">>

FILE_NAMES == <<"a", "b", "c", "d", "e", "f", "g", "h">>
RANK_NAMES == <<"1", "2", "3", "4", "5", "6", "7", "8">>

SQUARES == 0..63

square(file_index, rank_index) == rank_index * 8 + file_index
square_file(sq) == sq % 8
square_rank(sq) == sq \div 8

\* chess.SQUARE_NAMES[sq]: the two-character name of a square
square_name(sq) == <<FILE_NAMES[square_file(sq) + 1], RANK_NAMES[square_rank(sq) + 1]>>

\* the square that stands for a ValueError raised while a square name is parsed
ValueError == -1

\* chess.parse_square: SQUARE_NAMES.index(name), ValueError when absent
parse_square(name) ==
    IF \E sq \in SQUARES : square_name(sq) = name
    THEN CHOOSE sq \in SQUARES : square_name(sq) = name
    ELSE ValueError

\* str.lower on the characters the model uses
LowerChar(c) ==
    CASE c = "A" -> "a" [] c = "B" -> "b" [] c = "C" -> "c" [] c = "D" -> "d"
      [] c = "E" -> "e" [] c = "F" -> "f" [] c = "G" -> "g" [] c = "H" -> "h"
      [] c = "Q" -> "q" [] c = "N" -> "n" [] c = "R" -> "r" [] c = "K" -> "k"
      [] c = "P" -> "p" [] c = "T" -> "t"
      [] OTHER -> c

UpperChar(c) ==
    CASE c = "a" -> "A" [] c = "b" -> "B" [] c = "c" -> "C" [] c = "d" -> "D"
      [] c = "e" -> "E" [] c = "f" -> "F" [] c = "g" -> "G" [] c = "h" -> "H"
      [] c = "q" -> "Q" [] c = "n" -> "N" [] c = "r" -> "R" [] c = "k" -> "K"
      [] c = "p" -> "P" [] c = "t" -> "T"
      [] OTHER -> c

lower(s) == [i \in 1..Len(s) |-> LowerChar(s[i])]

\* A piece is its FEN symbol: uppercase for White, lowercase for Black.
NoPiece == "."
WhiteSymbols == {"P", "N", "B", "R", "Q", "K"}
BlackSymbols == {"p", "n", "b", "r", "q", "k"}

piece_color(p) == p \in WhiteSymbols
piece_type(p) == LowerChar(p)
Piece(ptype, color) == IF color = WHITE THEN UpperChar(ptype) ELSE ptype
IsPieceOf(p, color) == IF color = WHITE THEN p \in WhiteSymbols ELSE p \in BlackSymbols

\* chess.Move: from_square, to_square, promotion ("" for None)
Move(from_sq, to_sq, promo) == [from_square |-> from_sq, to_square |-> to_sq, promotion |-> promo]
NullMove == Move(0, 0, "")
\* the move that stands for a ValueError raised while a token is parsed
\* (chess.InvalidMoveError and chess.IllegalMoveError are both ValueErrors)
MoveError == Move(ValueError, ValueError, "")

\* Move.uci
uci(m) ==
    IF m = NullMove THEN <<"0", "0", "0", "0">>
    ELSE square_name(m.from_square) \o square_name(m.to_square)
         \o (IF m.promotion = "" THEN <<>> ELSE <<m.promotion>>)

\* Move.from_uci: MoveError for a token that names no move
from_uci(tok) ==
    IF tok = <<"0", "0", "0", "0">> THEN NullMove
    ELSE IF Len(tok) = 4 \/ Len(tok) = 5
    THEN LET from_sq == parse_square(SubSeq(tok, 1, 2))
             to_sq == parse_square(SubSeq(tok, 3, 4))
             promo == IF Len(tok) = 5 THEN tok[5] ELSE ""
         IN  IF from_sq = ValueError \/ to_sq = ValueError THEN MoveError
             ELSE IF Len(tok) = 5 /\ ~(\E i \in 1..6 : PIECE_SYMBOLS[i] = promo) THEN MoveError
             ELSE IF from_sq = to_sq THEN MoveError
             ELSE Move(from_sq, to_sq, promo)
    ELSE MoveError

\* ------------------------------------------------------------------------
\* chess: attacks and move generation
\* ------------------------------------------------------------------------

OnBoard(f, r) == f \in 0..7 /\ r \in 0..7

KnightSteps == {<<1, 2>>, <<2, 1>>, <<2, -1>>, <<1, -2>>, <<-1, -2>>, <<-2, -1>>, <<-2, 1>>, <<-1, 2>>}
KingSteps == {<<1, 0>>, <<1, 1>>, <<0, 1>>, <<-1, 1>>, <<-1, 0>>, <<-1, -1>>, <<0, -1>>, <<1, -1>>}
RookDirs == {<<1, 0>>, <<0, 1>>, <<-1, 0>>, <<0, -1>>}
BishopDirs == {<<1, 1>>, <<-1, 1>>, <<-1, -1>>, <<1, -1>>}

\* the squares a slider on (f, r) reaches in direction d, up to and
\* including the first occupied square
RECURSIVE Ray(_, _, _, _)
Ray(pieces, f, r, d) ==
    LET nf == f + d[1]
        nr == r + d[2]
    IN  IF ~OnBoard(nf, nr) THEN {}
        ELSE IF pieces[square(nf, nr)] # NoPiece THEN {square(nf, nr)}
        ELSE {square(nf, nr)} \cup Ray(pieces, nf, nr, d)

StepTargets(f, r, steps) ==
    {square(f + d[1], r + d[2]) : d \in {e \in steps : OnBoard(f + e[1], r + e[2])}}

SliderDirs(ptype) ==
    IF ptype = ROOK THEN RookDirs
    ELSE IF ptype = BISHOP THEN BishopDirs
    ELSE RookDirs \cup BishopDirs

\* the squares the piece on sq attacks
Attacks(pieces, sq) ==
    LET p == pieces[sq]
        f == square_file(sq)
        r == square_rank(sq)
        t == piece_type(p)
    IN  IF t = PAWN
        THEN StepTargets(f, r, IF piece_color(p) = WHITE THEN {<<-1, 1>>, <<1, 1>>}
                                                         ELSE {<<-1, -1>>, <<1, -1>>})
        ELSE IF t = KNIGHT THEN StepTargets(f, r, KnightSteps)
        ELSE IF t = KING THEN StepTargets(f, r, KingSteps)
        ELSE UNION {Ray(pieces, f, r, d) : d \in SliderDirs(t)}

\* Board.is_attacked_by: a piece of the colour attacks sq (looked up from sq:
\* a knight a knight's step away, a slider at the end of a free line, ...)
is_attacked_by(pieces, color, sq) ==
    LET f == square_file(sq)
        r == square_rank(sq)
        from_pawn == IF color = WHITE THEN {<<-1, -1>>, <<1, -1>>} ELSE {<<-1, 1>>, <<1, 1>>}
    IN  \/ \E t \in StepTargets(f, r, KnightSteps) : pieces[t] = Piece(KNIGHT, color)
        \/ \E t \in StepTargets(f, r, KingSteps) : pieces[t] = Piece(KING, color)
        \/ \E t \in StepTargets(f, r, from_pawn) : pieces[t] = Piece(PAWN, color)
        \/ \E d \in RookDirs : \E t \in Ray(pieces, f, r, d) :
               pieces[t] \in {Piece(ROOK, color), Piece(QUEEN, color)}
        \/ \E d \in BishopDirs : \E t \in Ray(pieces, f, r, d) :
               pieces[t] \in {Piece(BISHOP, color), Piece(QUEEN, color)}

king(pieces, color) == CHOOSE sq \in SQUARES : pieces[sq] = Piece(KING, color)

\* the piece placement after a move
Moved(pieces, m) ==
    LET p == pieces[m.from_square]
        q == IF m.promotion = "" THEN p ELSE Piece(m.promotion, piece_color(p))
    IN  [pieces EXCEPT ![m.from_square] = NoPiece, ![m.to_square] = q]

PawnMoves(pieces, sq, color) ==
    LET f == square_file(sq)
        r == square_rank(sq)
        dr == IF color = WHITE THEN 1 ELSE -1
        start == IF color = WHITE THEN 1 ELSE 6
        last == IF color = WHITE THEN 7 ELSE 0
        one == IF OnBoard(f, r + dr) /\ pieces[square(f, r + dr)] = NoPiece
               THEN {square(f, r + dr)} ELSE {}
        two == IF one # {} /\ r = start /\ pieces[square(f, r + 2 * dr)] = NoPiece
               THEN {square(f, r + 2 * dr)} ELSE {}
        caps == {t \in Attacks(pieces, sq) : IsPieceOf(pieces[t], ~color)}
        targets == one \cup two \cup caps
    IN  {Move(sq, t, "") : t \in {x \in targets : square_rank(x) # last}}
        \cup {Move(sq, t, pr) : t \in {x \in targets : square_rank(x) = last},
                                pr \in {QUEEN, ROOK, BISHOP, KNIGHT}}

\* Board.generate_pseudo_legal_moves
PseudoLegalMoves(pieces, color) ==
    UNION {IF piece_type(pieces[sq]) = PAWN
           THEN PawnMoves(pieces, sq, color)
           ELSE {Move(sq, t, "") : t \in {x \in Attacks(pieces, sq) : ~IsPieceOf(pieces[x], color)}}
           : sq \in {s \in SQUARES : IsPieceOf(pieces[s], color)}}

\* Board.legal_moves: the pseudo-legal moves that do not leave the own king attacked
LegalMoves(pieces, color) ==
    {m \in PseudoLegalMoves(pieces, color) :
        LET after == Moved(pieces, m)
        IN  ~is_attacked_by(after, ~color, king(after, color))}

\* Board.legal_moves and Board.is_check.  A board carries both, worked out
\* from its pieces and its turn when the position is set up (Position).
legal_moves(b) == b.legal
is_check(b) == b.check

\* a board with the position given: legal and check are worked out here
Position(pieces, turn, halfmove_clock, fullmove_number, move_stack, stack, prior) ==
    [pieces |-> pieces, turn |-> turn, halfmove_clock |-> halfmove_clock,
     fullmove_number |-> fullmove_number, move_stack |-> move_stack, stack |-> stack,
     prior |-> prior,
     legal |-> LegalMoves(pieces, turn),
     check |-> is_attacked_by(pieces, ~turn, king(pieces, turn))]


\* ------------------------------------------------------------------------
\* chess.Board: the state app.py keeps in the module-level variable board
\* ------------------------------------------------------------------------
\* pieces, turn, halfmove_clock, fullmove_number: the position (what
\*   Board.fen() serialises);
\* move_stack: the moves pushed, oldest first;
\* stack: the position before each move of move_stack (Board._stack);
\* prior: the number of moves pushed before the first one of move_stack,
\*   for a board taken up in the middle of a game (0 after reset).

BackRank == <<ROOK, KNIGHT, BISHOP, QUEEN, KING, BISHOP, KNIGHT, ROOK>>

StartingPieces ==
    [sq \in SQUARES |->
        CASE square_rank(sq) = 0 -> Piece(BackRank[square_file(sq) + 1], WHITE)
          [] square_rank(sq) = 1 -> Piece(PAWN, WHITE)
          [] square_rank(sq) = 6 -> Piece(PAWN, BLACK)
          [] square_rank(sq) = 7 -> Piece(BackRank[square_file(sq) + 1], BLACK)
          [] OTHER -> NoPiece]

\* chess.Board(): the standard starting position, nothing played
StartingBoard == Position(StartingPieces, WHITE, 0, 1, <<>>, <<>>, 0)

\* Board.fen(): the serialised position (no castling or en-passant field)
fen(b) ==
    [pieces |-> b.pieces, turn |-> b.turn, halfmove_clock |-> b.halfmove_clock,
     fullmove_number |-> b.fullmove_number]

\* Board.piece_at
piece_at(b, sq) == b.pieces[sq]

\* Board.is_zeroing: a pawn move or a capture
is_zeroing(pos, m) ==
    piece_type(pos.pieces[m.from_square]) = PAWN \/ pos.pieces[m.to_square] # NoPiece

\* Board.push: no legality check, as in python-chess
push(b, m) ==
    Position(Moved(b.pieces, m),
             ~b.turn,
             IF is_zeroing(b, m) THEN 0 ELSE b.halfmove_clock + 1,
             IF b.turn = BLACK THEN b.fullmove_number + 1 ELSE b.fullmove_number,
             Append(b.move_stack, m),
             Append(b.stack, fen(b)),
             b.prior)

\* Board.parse_uci: the move a token names; MoveError (a ValueError) when the
\* token names no move or names a move that is not legal here; the null
\* move is returned as it is
parse_uci(b, tok) ==
    LET m == from_uci(tok)
    IN  IF m = MoveError THEN MoveError
        ELSE IF m = NullMove THEN m
        ELSE IF m \notin legal_moves(b) THEN MoveError
        ELSE m

\* `move in board.legal_moves`
is_legal(b, m) == m # NullMove /\ m # MoveError /\ m \in legal_moves(b)

is_checkmate(b) == is_check(b) /\ legal_moves(b) = {}
is_stalemate(b) == ~is_check(b) /\ legal_moves(b) = {}

SquaresOf(pieces, symbols) == {sq \in SQUARES : pieces[sq] \in symbols}
IsLight(sq) == (square_file(sq) + square_rank(sq)) % 2 = 1

\* Board.has_insufficient_material
has_insufficient_material(pieces, color) ==
    LET own == {sq \in SQUARES : IsPieceOf(pieces[sq], color)}
        other == {sq \in SQUARES : IsPieceOf(pieces[sq], ~color)}
        typeAt(sq) == piece_type(pieces[sq])
        bishops == SquaresOf(pieces, {"B", "b"})
    IN  IF \E sq \in own : typeAt(sq) \in {PAWN, ROOK, QUEEN} THEN FALSE
        ELSE IF \E sq \in own : typeAt(sq) = KNIGHT
        THEN Cardinality(own) <= 2
             /\ ~(\E sq \in other : typeAt(sq) \notin {KING, QUEEN})
        ELSE IF \E sq \in own : typeAt(sq) = BISHOP
        THEN ((\A sq \in bishops : IsLight(sq)) \/ (\A sq \in bishops : ~IsLight(sq)))
             /\ SquaresOf(pieces, {"P", "p", "N", "n"}) = {}
        ELSE TRUE

is_insufficient_material(b) ==
    has_insufficient_material(b.pieces, WHITE) /\ has_insufficient_material(b.pieces, BLACK)

\* halfmove clock at which Board.is_seventyfive_moves holds
SeventyFiveMovesClock == 150
\* occurrences of a position at which Board.is_fivefold_repetition holds
FivefoldCount == 5

is_seventyfive_moves(b) == b.halfmove_clock >= SeventyFiveMovesClock /\ legal_moves(b) # {}

\* Board._transposition_key
transposition_key(pos) == <<pos.pieces, pos.turn>>

\* Board.is_repetition: walk the move stack backwards, up to the first
\* irreversible move, counting the positions equal to the current one.  The
\* moves before move_stack (prior) are not looked at: a board taken up in the
\* middle of a game is one whose current positions did not occur earlier.
RECURSIVE RepetitionWalk(_, _, _)
RepetitionWalk(b, i, count) ==
    IF count <= 1 THEN TRUE
    ELSE IF b.prior + i < count - 1 THEN FALSE
    ELSE IF i = 0 THEN FALSE
    ELSE IF is_zeroing(b.stack[i], b.move_stack[i]) THEN FALSE
    ELSE RepetitionWalk(b, i - 1,
            IF transposition_key(b.stack[i]) = transposition_key(b) THEN count - 1 ELSE count)

is_repetition(b, count) == RepetitionWalk(b, Len(b.move_stack), count)
is_fivefold_repetition(b) == is_repetition(b, FivefoldCount)

\* Board.is_game_over (claim_draw=False): Board.outcome() is not None
is_game_over(b) ==
    \/ is_checkmate(b)
    \/ is_insufficient_material(b)
    \/ legal_moves(b) = {}
    \/ is_seventyfive_moves(b)
    \/ is_fivefold_repetition(b)

\* ------------------------------------------------------------------------
\* text
\* ------------------------------------------------------------------------
\* A text is a sequence of characters.  A fixed message of app.py is one
\* element of the sequence: it is no whitespace, no line break and no
\* character of a move token.

IsSpace(c) == c \in {" ", "\n"}

RECURSIVE lstrip(_)
lstrip(s) == IF s # <<>> /\ IsSpace(Head(s)) THEN lstrip(Tail(s)) ELSE s

RECURSIVE rstrip(_)
rstrip(s) == IF s # <<>> /\ IsSpace(s[Len(s)]) THEN rstrip(SubSeq(s, 1, Len(s) - 1)) ELSE s

\* str.strip
strip(s) == rstrip(lstrip(s))

\* str.splitlines: a trailing line break opens no further line
RECURSIVE splitlines(_)
splitlines(s) ==
    IF s = <<>> THEN <<>>
    ELSE IF \E i \in 1..Len(s) : s[i] = "\n"
    THEN LET i == CHOOSE k \in 1..Len(s) : s[k] = "\n" /\ \A j \in 1..(k - 1) : s[j] # "\n"
         IN  <<SubSeq(s, 1, i - 1)>> \o splitlines(SubSeq(s, i + 1, Len(s)))
    ELSE <<s>>

\* "\n".join
RECURSIVE join(_)
join(lines) ==
    IF lines = <<>> THEN <<>>
    ELSE IF Len(lines) = 1 THEN lines[1]
    ELSE lines[1] \o <<"\n">> \o join(Tail(lines))

FileChars == {"a", "b", "c", "d", "e", "f", "g", "h"}
RankChars == {"1", "2", "3", "4", "5", "6", "7", "8"}
PromotionChars == {"q", "n", "r", "b"}

\* re.fullmatch(r"^[a-h][1-8][a-h][1-8][qnrb]?$", s)
LooksLikeUci(s) ==
    /\ Len(s) \in {4, 5}
    /\ s[1] \in FileChars /\ s[2] \in RankChars
    /\ s[3] \in FileChars /\ s[4] \in RankChars
    /\ (Len(s) = 5 => s[5] \in PromotionChars)

\* the fixed messages
AnalysisNotAvailable == <<"AI analysis not available.">>
NoThoughtsProvided == <<"(No thoughts provided, only move)">>
ResponseWasEmpty == <<"(LLM response was empty)">>
ChoosingRandomly == <<" (AI failed to provide a valid move, choosing randomly.)">>
NoLegalMovesAvailable == <<" (No legal moves available!)">>

\* the move of a result that carries no move (Python's None)
NoMove == <<>>

\* parse_llm_response: the thoughts and the move token of one reply
parse_llm_response(response_text) ==
    IF response_text = <<>>
    THEN [thoughts |-> AnalysisNotAvailable, move |-> NoMove]
    ELSE LET lines == splitlines(strip(response_text))
         IN  IF Len(lines) >= 1
             THEN LET potential_move == strip(lines[Len(lines)])
                  IN  IF LooksLikeUci(potential_move)
                      THEN [thoughts |-> IF Len(lines) > 1
                                         THEN strip(join(SubSeq(lines, 1, Len(lines) - 1)))
                                         ELSE NoThoughtsProvided,
                            move |-> potential_move]
                      ELSE [thoughts |-> strip(response_text), move |-> NoMove]
             ELSE [thoughts |-> ResponseWasEmpty, move |-> NoMove]

\* ------------------------------------------------------------------------
\* bounds and inputs
\* ------------------------------------------------------------------------

\* moves pushed in one game (since the board was taken up or reset) before
\* the model stops accepting legal user moves; a turn is two moves
MaxPlies == 4

Sq(f, r) == parse_square(<<f, r>>)

\* King and pawn against king, White to move: Kc6, Pc7 against Ka8.
EndgamePieces ==
    [sq \in SQUARES |->
        IF sq = Sq("c", "6") THEN "K"
        ELSE IF sq = Sq("c", "7") THEN "P"
        ELSE IF sq = Sq("a", "8") THEN "k"
        ELSE NoPiece]

\* King and rook against king, White to move: Kc6, Rh1 against Ka8.
RookEndgamePieces ==
    [sq \in SQUARES |->
        IF sq = Sq("c", "6") THEN "K"
        ELSE IF sq = Sq("h", "1") THEN "R"
        ELSE IF sq = Sq("a", "8") THEN "k"
        ELSE NoPiece]

\* the rook endgame taken up with 148 reversible half-moves behind it
SeventyFiveBoard == Position(RookEndgamePieces, WHITE, 148, 120, <<>>, <<>>, 238)

RECURSIVE Replay(_, _)
Replay(b, tokens) ==
    IF tokens = <<>> THEN b ELSE Replay(push(b, from_uci(Head(tokens))), Tail(tokens))

\* one round of the kings stepping back and forth, from the position with
\* the white king on d6 and Black to move
Shuffle ==
    << <<"a", "8", "a", "7">>, <<"d", "6", "c", "6">>,
       <<"a", "7", "a", "8">>, <<"c", "6", "d", "6">> >>

\* the endgame after the kings have stepped back and forth: the position
\* with the white king on d6 and Black to move has occurred four times,
\* and it is White's move with the king on c6
RepetitionBoard ==
    LET first == Position(Moved(EndgamePieces, from_uci(<<"c", "6", "d", "6">>)),
                          BLACK, 1, 60, <<>>, <<>>, 119)
    IN  Replay(first, Shuffle \o Shuffle \o Shuffle \o SubSeq(Shuffle, 1, 3))

\* the boards the model starts from: a new game, and two games in progress
InitialBoards == {StartingBoard, SeventyFiveBoard, RepetitionBoard}

\* the request bodies of POST /move.  present: the keys the JSON object
\* has (none: no object, or an empty one); a key that is absent holds <<>>
Data(keys, from_name, to_name, promotion) ==
    [present |-> keys, from |-> from_name, to |-> to_name, promotion |-> promotion]

\* the origin and destination squares of the user's requests
UserPairs ==
    { <<"e", "2", "e", "4">>, <<"e", "2", "e", "5">>, <<"e", "7", "e", "5">>,
      <<"c", "6", "d", "6">>, <<"d", "6", "c", "6">>, <<"c", "6", "b", "6">>,
      <<"c", "7", "c", "8">>, <<"c", "8", "b", "7">>,
      <<"a", "8", "a", "7">>, <<"a", "8", "b", "7">>, <<"a", "7", "a", "8">>,
      <<"h", "1", "a", "1">>, <<"h", "1", "h", "2">>, <<"h", "1", "h", "8">>,
      <<"h", "2", "a", "2">> }

UserHints == { <<"q">>, <<"N">>, <<"x">> }

UserData ==
    {Data({"from", "to"}, SubSeq(p, 1, 2), SubSeq(p, 3, 4), <<>>) : p \in UserPairs}
    \cup {Data({"from", "to", "promotion"}, SubSeq(p, 1, 2), SubSeq(p, 3, 4), h) :
             p \in UserPairs, h \in UserHints}
    \cup { Data({}, <<>>, <<>>, <<>>),
           Data({"from"}, <<"e", "2">>, <<>>, <<>>),
           Data({"to", "promotion"}, <<>>, <<"e", "4">>, <<"q">>),
           Data({"from", "to"}, <<"z", "9">>, <<"e", "4">>, <<>>),
           Data({"from", "to", "promotion"}, <<"c", "7">>, <<"j", "8">>, <<"q">>),
           Data({"from", "to"}, <<"0", "0">>, <<"0", "0">>, <<>>),
           Data({"from", "to"}, <<"e", "2">>, <<"e", "2">>, <<>>),
           Data({"from", "to"}, <<"e">>, <<"2", "e", "4">>, <<>>),
           Data({"from", "to", "promotion"}, <<"c", "7">>, <<"c", "8", "q">>, <<"q">>) }

\* the replies of the LLM: response.text of one chat.send_message
Rationale == <<"T">>
IllegalToken == <<"h", "8", "h", "7">>
InvalidToken == <<"a", "1", "a", "1">>
upper(s) == [i \in 1..Len(s) |-> UpperChar(s[i])]

LLMReplies(b) ==
    LET tokens == {uci(m) : m \in legal_moves(b)}
        one == IF tokens = {} THEN IllegalToken ELSE CHOOSE t \in tokens : TRUE
    IN  {Rationale \o <<"\n">> \o t : t \in tokens \cup {IllegalToken}}
        \cup {t : t \in tokens \cup {InvalidToken}}
        \cup { <<" ">> \o Rationale \o <<"\n", " ">> \o one \o <<" ", "\n">>,
               upper(one),
               Rationale \o <<"\n">> \o upper(one),
               Rationale,
               <<>>,
               <<" ", "\n">> }

\* ------------------------------------------------------------------------
\* state
\* ------------------------------------------------------------------------

VARIABLES
    board,       \* the module-level chess.Board
    client,      \* the module-level LLM client: FALSE when it is None
    pc,          \* where the one request handler is: "idle", "creating" (in
                 \* client.chats.create), "awaiting" (in chat.send_message),
                 \* "responded" (the response is on its way to the caller)
    data,        \* handle_move: the request body
    move_uci,    \* handle_move: the token built from the request
    user_move,   \* handle_move: the user's move, once pushed
    retries,     \* get_llm_move: retries
    response,    \* the response returned
    origin,      \* the board the game was taken up at, or reset to
    before,      \* the board when the request was received
    sends,       \* calls of chat.send_message made for this request
    chats,       \* calls of client.chats.create made for this request
    llm_called,  \* get_llm_move was called for this request
    fallback,    \* get_random_move_with_thoughts was called for this request
    llm_result,  \* what get_llm_move returned
    received,    \* replies chat.send_message returned for this request
    legal_reply, \* one of these replies ended with a move token legal on the board
    raised,      \* the LLM client raised an exception for this request
    collected,   \* the thoughts last supplied by a reply of this request's negotiation
    parser_input, \* parse_llm_response called on its own: response_text
    parser_output, \* parse_llm_response called on its own: what it returned
    chat,        \* get_llm_move: chat, the session and the messages sent over it
    ended        \* a /move has returned game_over = true since the board was set up or reset

vars == <<board, client, pc, data, move_uci, user_move, retries, response, origin, before,
          sends, chats, llm_called, fallback, llm_result, received, legal_reply, raised,
          collected, parser_input, parser_output, chat, ended>>

max_retries == 3

NoData == Data({}, <<>>, <<>>, <<>>)

\* a chat session: the messages sent over it (NoChat: `chat` is not bound)
NoChat == [created |-> FALSE, history |-> <<>>]

\* client.chats.create(model=model_id): a new session, nothing sent over it
chats_create == [created |-> TRUE, history |-> <<>>]

\* send_message that opens a session of its own for the message
send_message_on_new_chat(session, prompt) == [chats_create EXCEPT !.history = <<prompt>>]

\* chat.send_message(prompt): the session with the message sent over it
send_message(session, prompt) == [session EXCEPT !.history = Append(@, prompt)]
NoResult == [thoughts |-> <<>>, move |-> NoMove]

\* a response: the HTTP status code and the fields of the JSON body
\* (route: the handler that returned it; has_fen: the body has a 'fen')
NoFen ==
    [pieces |-> [sq \in SQUARES |-> NoPiece], turn |-> WHITE, halfmove_clock |-> 0,
     fullmove_number |-> 0]

NoResponse ==
    [route |-> "", code |-> 0, error |-> "", move_uci |-> <<>>, has_fen |-> FALSE,
     fen |-> NoFen, status_detail |-> <<>>, user_move |-> NullMove,
     llm_move_san |-> <<>>, game_over |-> FALSE, llm_thoughts |-> <<>>]

\* ErrorResponse as the handler of unexpected exceptions answers: a body
\* with the error alone, no 'fen'
ErrorResponseWithoutFen(message, token, b) ==
    [NoResponse EXCEPT !.route = "move", !.code = 400, !.error = message, !.move_uci = token]

FenResponse(route, b) ==
    [NoResponse EXCEPT !.route = route, !.code = 200, !.has_fen = TRUE, !.fen = fen(b)]

ErrorResponse(message, token, b) ==
    [NoResponse EXCEPT !.route = "move", !.code = 400, !.error = message,
                       !.move_uci = token, !.has_fen = TRUE, !.fen = fen(b)]

Played(b) == Len(b.move_stack) - Len(origin.move_stack)

Init ==
    /\ board \in InitialBoards
    /\ origin = board
    /\ before = board
    /\ client \in BOOLEAN
    /\ pc = "idle"
    /\ data = NoData
    /\ move_uci = <<>>
    /\ user_move = NullMove
    /\ received = 0
    /\ legal_reply = FALSE
    /\ raised = FALSE
    /\ retries = 0
    /\ sends = 0
    /\ chats = 0
    /\ llm_called = FALSE
    /\ fallback = FALSE
    /\ llm_result = NoResult
    /\ response = NoResponse
    /\ collected = <<>>
    /\ parser_input = <<>>
    /\ parser_output = NoResult
    /\ chat = NoChat
    /\ ended = FALSE

\* ------------------------------------------------------------------------
\* get_random_move_with_thoughts, and the end of handle_move
\* ------------------------------------------------------------------------

\* get_random_move_with_thoughts: the results random.choice can give
\* (existing_thoughts: <<>> for None)
get_random_move_with_thoughts(b, existing_thoughts) ==
    LET thoughts == (IF existing_thoughts # <<>> THEN existing_thoughts ELSE AnalysisNotAvailable)
                    \o ChoosingRandomly
    IN  IF legal_moves(b) # {}
        THEN {[thoughts |-> thoughts, move |-> uci(m)] : m \in legal_moves(b)}
        ELSE {[thoughts |-> thoughts \o NoLegalMovesAvailable, move |-> NoMove]}

ColorName(color) == IF color = WHITE THEN "White" ELSE "Black"

\* handle_move, "Determine Status Text": the status phrase and game_over
Status(b, game_over) ==
    IF is_checkmate(b)
    THEN [status_detail |-> <<"CHECKMATE! ", ColorName(~b.turn), " wins.">>, game_over |-> TRUE]
    ELSE IF is_stalemate(b)
    THEN [status_detail |-> <<"STALEMATE! Draw.">>, game_over |-> TRUE]
    ELSE IF is_insufficient_material(b)
    THEN [status_detail |-> <<"DRAW! Insufficient material.">>, game_over |-> TRUE]
    ELSE IF is_check(b)
    THEN [status_detail |-> <<ColorName(b.turn), " is in CHECK!">>, game_over |-> game_over]
    ELSE IF ~game_over
    THEN [status_detail |-> <<ColorName(b.turn), " to move.">>, game_over |-> game_over]
    ELSE [status_detail |-> <<"Game Over.">>, game_over |-> game_over]

\* handle_move from the return of get_llm_move on: push the engine's move if
\* it is legal, work out the status, respond.  b: the board with the user's
\* move pushed; called: get_llm_move was called; result: what it returned.
\* The value is the board and the response handle_move ends with.
Outcome(b, move, game_over, called, result) ==
    LET llm_move_uci == result.move
        llm_move == IF called /\ llm_move_uci # NoMove THEN parse_uci(b, llm_move_uci) ELSE MoveError
        pushed == called /\ llm_move_uci # NoMove /\ llm_move # MoveError /\ is_legal(b, llm_move)
        final == IF pushed THEN push(b, llm_move) ELSE b
        llm_move_san ==
            IF ~called THEN <<>>
            ELSE IF llm_move_uci = NoMove THEN <<"[LLM failed to move]">>
            ELSE IF llm_move = MoveError THEN <<"[LLM invalid format: ">> \o llm_move_uci \o <<"]">>
            ELSE IF ~pushed THEN <<"[LLM illegal move: ">> \o llm_move_uci \o <<"]">>
            ELSE llm_move_uci
        status == Status(final, IF pushed THEN is_game_over(final) ELSE game_over)
    IN  [board |-> final,
         response |-> [NoResponse EXCEPT
                           !.route = "move", !.code = 200, !.has_fen = TRUE, !.fen = fen(final),
                           !.status_detail = status.status_detail, !.user_move = move,
                           !.llm_move_san = llm_move_san, !.game_over = status.game_over,
                           !.llm_thoughts = IF called THEN result.thoughts ELSE <<>>]]

\* the handler returns
Complete(b, move, game_over, called, result) ==
    /\ pc' = "responded"
    /\ llm_called' = called
    /\ llm_result' = result
    /\ \E out \in {Outcome(b, move, game_over, called, result)} :
          /\ board' = out.board
          /\ response' = out.response

\* ------------------------------------------------------------------------
\* POST /move
\* ------------------------------------------------------------------------

\* MoveUci with the hint appended whenever there is one
MoveUciAlwaysAppends(b, d) ==
    IF d.promotion # <<>> THEN d.from \o d.to \o lower(d.promotion) ELSE d.from \o d.to

\* handle_move: the token built from the request
MoveUci(b, d) ==
    LET token == d.from \o d.to
    IN  IF d.promotion # <<>> /\ Len(d.from) = 2 /\ Len(d.to) = 2
        THEN LET from_sq == parse_square(d.from)
                 to_sq == parse_square(d.to)
             IN  IF from_sq = ValueError \/ to_sq = ValueError THEN token
                 ELSE LET piece == piece_at(b, from_sq)
                      IN  IF /\ piece # NoPiece
                             /\ piece_type(piece) = PAWN
                             /\ \/ (piece_color(piece) = WHITE /\ square_rank(to_sq) = 7)
                                \/ (piece_color(piece) = BLACK /\ square_rank(to_sq) = 0)
                          THEN token \o lower(d.promotion)
                          ELSE token
        ELSE token

\* `not data or 'from' not in data or 'to' not in data`
InvalidData(d) == d.present = {} \/ "from" \notin d.present \/ "to" \notin d.present

\* UserMove with the token read by Move.from_uci, which looks at no board,
\* and the move pushed without `move in board.legal_moves`
UserMoveUnchecked(b, d) ==
    IF InvalidData(d)
    THEN [error |-> "Invalid move data format", move_uci |-> <<>>, move |-> MoveError,
          board |-> b, game_over |-> FALSE]
    ELSE LET token == MoveUci(b, d)
             move == from_uci(token)
         IN  IF move = MoveError \/ move = NullMove
             THEN [error |-> "Invalid move format", move_uci |-> token, move |-> move,
                   board |-> b, game_over |-> FALSE]
             ELSE LET pushed == push(b, move)
                  IN  [error |-> "", move_uci |-> token, move |-> move,
                       board |-> pushed, game_over |-> is_game_over(pushed)]

\* handle_move, "User Move Handling": the error the request ends with ("" for
\* none), the token, the move, and the board and game_over after the push
UserMove(b, d) ==
    IF InvalidData(d)
    THEN [error |-> "Invalid move data format", move_uci |-> <<>>, move |-> MoveError,
          board |-> b, game_over |-> FALSE]
    ELSE LET token == MoveUci(b, d)
             move == parse_uci(b, token)
         IN  IF move = MoveError
             THEN [error |-> "Invalid move format", move_uci |-> token, move |-> move,
                   board |-> b, game_over |-> FALSE]
             ELSE IF ~is_legal(b, move)
             THEN [error |-> "Illegal move", move_uci |-> token, move |-> move,
                   board |-> b, game_over |-> FALSE]
             ELSE LET pushed == push(b, move)
                  IN  [error |-> "", move_uci |-> token, move |-> move,
                       board |-> pushed, game_over |-> is_game_over(pushed)]

Reject(message, token) ==
    /\ response' = ErrorResponse(message, token, board)
    /\ pc' = "responded"
    /\ UNCHANGED <<board, user_move, retries, sends, chats, llm_called, fallback,
                   llm_result>>

\* HandleMove without `if not client` in get_llm_move: the session is asked
\* for whether there is a client or not
HandleMoveWithoutClientCheck(d) ==
    /\ pc = "idle"
    /\ data' = d
    /\ before' = board
    /\ UNCHANGED <<client, ended, chat, parser_output, parser_input, collected, origin,
                   received, legal_reply, raised>>
    /\ \E u \in {UserMove(board, d)} :
          /\ move_uci' = u.move_uci
          /\ IF u.error # "" THEN Reject(u.error, u.move_uci)
             ELSE /\ Played(board) + 2 <= MaxPlies
                  /\ user_move' = u.move
                  /\ UNCHANGED <<retries, sends, chats>>
                  /\ IF ~u.game_over /\ u.board.turn = BLACK
                     THEN /\ board' = u.board
                          /\ llm_called' = TRUE
                          /\ pc' = "creating"
                          /\ UNCHANGED <<fallback, llm_result, response>>
                     ELSE /\ fallback' = FALSE
                          /\ Complete(u.board, u.move, u.game_over, FALSE, NoResult)

\* handle_move up to the first call of the LLM client (or to its return,
\* when the client is not called)
HandleMove(d) ==
    /\ pc = "idle"
    /\ data' = d
    /\ before' = board
    /\ UNCHANGED <<client, ended, chat, parser_output, parser_input, collected, origin,
                   received, legal_reply, raised>>
    /\ \E u \in {UserMove(board, d)} :
          /\ move_uci' = u.move_uci
          /\ IF u.error # "" THEN Reject(u.error, u.move_uci)
             ELSE /\ Played(board) + 2 <= MaxPlies
                  /\ user_move' = u.move
                  /\ UNCHANGED <<retries, sends, chats>>
                  /\ IF ~u.game_over /\ u.board.turn = BLACK
                     THEN IF ~client
                          THEN /\ fallback' = TRUE
                               /\ \E result \in get_random_move_with_thoughts(u.board, <<>>) :
                                     Complete(u.board, u.move, u.game_over, TRUE, result)
                          ELSE /\ board' = u.board
                               /\ llm_called' = TRUE
                               /\ pc' = "creating"
                               /\ UNCHANGED <<fallback, llm_result, response>>
                     ELSE /\ fallback' = FALSE
                          /\ Complete(u.board, u.move, u.game_over, FALSE, NoResult)

\* client.chats.create returns, and the initial prompt is sent
ChatsCreateReturns ==
    /\ pc = "creating"
    /\ chats' = chats + 1
    /\ sends' = sends + 1
    /\ chat' = send_message(chats_create, "initial_prompt")
    /\ pc' = "awaiting"
    /\ UNCHANGED <<board, client, ended, parser_output, parser_input, collected, data,
                   move_uci, user_move, retries, response, origin, before, llm_called,
                   fallback, llm_result, received, legal_reply, raised>>

\* Degrade without the `except Exception` of get_llm_move: the exception
\* reaches the handler of handle_move, which answers 500
DegradePropagates ==
    /\ response' = [NoResponse EXCEPT !.route = "move", !.code = 500,
                                      !.error = "An internal server error occurred"]
    /\ pc' = "responded"
    /\ UNCHANGED <<board, llm_called, fallback, llm_result>>

\* get_llm_move, `except Exception`: the fallback without thoughts
Degrade ==
    /\ fallback' = TRUE
    /\ \E result \in get_random_move_with_thoughts(board, <<>>) :
          Complete(board, user_move, FALSE, TRUE, result)

\* client.chats.create raises
ChatsCreateRaises ==
    /\ pc = "creating"
    /\ chats' = chats + 1
    /\ raised' = TRUE
    /\ Degrade
    /\ UNCHANGED <<client, ended, chat, parser_output, parser_input, collected, data,
                   move_uci, user_move, retries, origin, before, sends, received,
                   legal_reply>>

\* Accepted with the token read by Move.from_uci alone: any token that
\* names a move is taken, legal on the board or not
AcceptedAnyToken(b, parsed) ==
    /\ parsed.move # NoMove
    /\ from_uci(parsed.move) # MoveError

\* get_llm_move, the loop: whether the move of a parsed reply is accepted
Accepted(b, parsed) ==
    /\ parsed.move # NoMove
    /\ LET move == parse_uci(b, parsed.move)
       IN  move # MoveError /\ is_legal(b, move)

\* Evaluate with the loop condition `retries <= max_retries`
EvaluateOnceMore(parsed) ==
    IF retries <= max_retries
    THEN IF Accepted(board, parsed)
         THEN /\ Complete(board, user_move, FALSE, TRUE,
                          [thoughts |-> parsed.thoughts, move |-> parsed.move])
              /\ UNCHANGED <<retries, sends, fallback>>
         ELSE /\ retries' = retries + 1
              /\ sends' = sends + 1
              /\ UNCHANGED <<board, pc, response, llm_called, fallback, llm_result>>
    ELSE /\ fallback' = TRUE
         /\ \E result \in get_random_move_with_thoughts(board, parsed.thoughts) :
               Complete(board, user_move, FALSE, TRUE, result)
         /\ UNCHANGED <<retries, sends>>

\* chat.send_message returns a reply: parse it and go round the loop once
\* (parsed: parse_llm_response of the reply)
Evaluate(parsed) ==
    IF retries < max_retries
    THEN IF Accepted(board, parsed)
         THEN /\ Complete(board, user_move, FALSE, TRUE,
                          [thoughts |-> parsed.thoughts, move |-> parsed.move])
              /\ UNCHANGED <<retries, sends, fallback>>
         ELSE /\ retries' = retries + 1
              /\ sends' = sends + 1
              /\ UNCHANGED <<board, pc, response, llm_called, fallback, llm_result>>
    ELSE /\ fallback' = TRUE
         /\ \E result \in get_random_move_with_thoughts(board, parsed.thoughts) :
               Complete(board, user_move, FALSE, TRUE, result)
         /\ UNCHANGED <<retries, sends>>

\* a reply whose parse carries thoughts of the LLM, not one of the texts
\* parse_llm_response puts in their place
SuppliesThoughts(parsed) ==
    parsed.thoughts \notin {AnalysisNotAvailable, NoThoughtsProvided, ResponseWasEmpty}

SendMessageReturns ==
    /\ pc = "awaiting"
    /\ UNCHANGED <<client, ended, parser_output, parser_input, data, move_uci, user_move,
                   origin, before, chats, raised>>
    /\ \E parsed \in {parse_llm_response(response_text) : response_text \in LLMReplies(board)} :
          /\ received' = received + 1
          /\ legal_reply' = (legal_reply \/ Accepted(board, parsed))
          /\ collected' = IF SuppliesThoughts(parsed) THEN parsed.thoughts ELSE collected
          /\ Evaluate(parsed)
          /\ chat' = IF sends' = sends + 1 THEN send_message(chat, "correction_prompt") ELSE chat

\* chat.send_message raises
SendMessageRaises ==
    /\ pc = "awaiting"
    /\ raised' = TRUE
    /\ Degrade
    /\ UNCHANGED <<client, ended, chat, parser_output, parser_input, collected, data,
                   move_uci, user_move, retries, origin, before, sends, chats, received,
                   legal_reply>>

\* ------------------------------------------------------------------------
\* GET /reset, GET /get_fen, and the delivery of a response
\* ------------------------------------------------------------------------

\* Board.reset that sets up the pieces and leaves the move stack as it is
reset_pieces_only(b) ==
    [StartingBoard EXCEPT !.move_stack = b.move_stack, !.stack = b.stack]

\* Board.reset
reset_board(b) == StartingBoard

Reset ==
    /\ pc = "idle"
    /\ before' = board
    /\ board' = reset_board(board)
    /\ origin' = reset_board(board)
    /\ response' = FenResponse("reset", reset_board(board))
    /\ pc' = "responded"
    /\ UNCHANGED <<client, ended, chat, parser_output, parser_input, collected, data,
                   move_uci, user_move, retries, sends, chats, llm_called, fallback,
                   llm_result, received, legal_reply, raised>>

GetFen ==
    /\ pc = "idle"
    /\ before' = board
    /\ response' = FenResponse("get_fen", board)
    /\ pc' = "responded"
    /\ UNCHANGED <<board, origin, client, ended, chat, parser_output, parser_input,
                   collected, data, move_uci, user_move, retries, sends, chats, llm_called,
                   fallback, llm_result, received, legal_reply, raised>>

\* the caller receives the response; the handler's locals are gone
Deliver ==
    /\ pc = "responded"
    /\ pc' = "idle"
    /\ data' = NoData
    /\ before' = board
    /\ move_uci' = <<>>
    /\ user_move' = NullMove
    /\ received' = 0
    /\ collected' = <<>>
    /\ chat' = NoChat
    /\ ended' = IF response.route = "reset" THEN FALSE
                ELSE IF response.route = "move" /\ response.code = 200 /\ response.game_over
                THEN TRUE
                ELSE ended
    /\ legal_reply' = FALSE
    /\ raised' = FALSE
    /\ retries' = 0
    /\ sends' = 0
    /\ chats' = 0
    /\ llm_called' = FALSE
    /\ fallback' = FALSE
    /\ llm_result' = NoResult
    /\ response' = NoResponse
    /\ UNCHANGED <<board, origin, client, parser_output, parser_input>>

Next ==
    \/ \E d \in UserData : HandleMove(d)
    \/ ChatsCreateReturns
    \/ ChatsCreateRaises
    \/ SendMessageReturns
    \/ SendMessageRaises
    \/ Reset
    \/ GetFen
    \/ Deliver

Spec == Init /\ [][Next]_vars

\* The call of the LLM client that handle_move is blocked in comes back, as
\* pc, chats and sends show it: the step of ChatsCreateReturns, of
\* ChatsCreateRaises, of SendMessageReturns and of SendMessageRaises, and
\* of no other action.
LLMCallComesBack ==
    /\ \/ pc = "creating" /\ chats' = chats + 1
       \/ pc = "awaiting" /\ chats' = chats
    /\ \/ pc' = "awaiting" /\ sends' = sends + 1
       \/ pc' = "responded" /\ sends' = sends

\* A call of the LLM client that has been made returns or raises: app.py
\* blocks in client.chats.create and in chat.send_message, and goes on when
\* the call comes back.
FairSpec == Spec /\ WF_<<pc, chats, sends>>(LLMCallComesBack)

\* ------------------------------------------------------------------------
\* requests handled at the same time
\* ------------------------------------------------------------------------
\* app.run(debug=True, ...) starts the development server, which handles each
\* request in a thread of its own; `board` is shared and nothing in app.py
\* locks it.  While handle_move is blocked in a call of the LLM client, the
\* handler of another request can run from its start to its return.

\* replies the request in get_llm_move has received, at most, when the other
\* request is handled
MaxRepliesBefore == 0

\* GET /reset handled while a /move is in get_llm_move
ResetInFlight ==
    /\ pc \in {"creating", "awaiting"}
    /\ received <= MaxRepliesBefore
    /\ board' = reset_board(board)
    /\ origin' = reset_board(board)
    /\ ended' = FALSE
    /\ UNCHANGED <<client, pc, data, move_uci, user_move, retries, response, before, sends,
                   chats, llm_called, fallback, llm_result, received, legal_reply, raised,
                   collected, parser_input, parser_output, chat>>

\* POST /move handled while another /move is in get_llm_move: a request
\* whose move is pushed and that does not call get_llm_move itself
MoveInFlight(d) ==
    /\ pc \in {"creating", "awaiting"}
    /\ received <= MaxRepliesBefore
    /\ \E u \in {UserMove(board, d)} :
          /\ u.error = ""
          /\ ~(~u.game_over /\ u.board.turn = BLACK)
          /\ board' = u.board
    /\ UNCHANGED <<client, ended, pc, data, move_uci, user_move, retries, response, origin,
                   before, sends, chats, llm_called, fallback, llm_result, received,
                   legal_reply, raised, collected, parser_input, parser_output, chat>>

\* the /move requests of the game: White's e2e4, and Black's e7e5 from the
\* other caller
FirstMove == Data({"from", "to"}, <<"e", "2">>, <<"e", "4">>, <<>>)
OtherMove == Data({"from", "to"}, <<"e", "7">>, <<"e", "5">>, <<>>)

ConcurrentNext ==
    \/ HandleMove(FirstMove)
    \/ ChatsCreateReturns
    \/ ChatsCreateRaises
    \/ SendMessageReturns
    \/ SendMessageRaises
    \/ Reset
    \/ GetFen
    \/ Deliver
    \/ ResetInFlight
    \/ MoveInFlight(OtherMove)

\* a game on the starting board, with a client
ConcurrentInit == Init /\ board = StartingBoard /\ client

ConcurrentSpec == ConcurrentInit /\ [][ConcurrentNext]_vars

\* ------------------------------------------------------------------------
\* parse_llm_response called on its own
\* ------------------------------------------------------------------------

\* fragments a response.text is put together from, and how many of them
MaxFragments == 4

Fragments ==
    { <<"T">>, <<" ">>, <<"\n">>,
      <<"e", "7", "e", "5">>, <<"e", "7", "e", "8", "q">>,
      <<"E", "7", "E", "5">>, <<"e", "7", "e", "8", "Q">> }

RECURSIVE Texts(_)
Texts(n) ==
    IF n = 0 THEN {<<>>}
    ELSE LET shorter == Texts(n - 1)
         IN  shorter \cup {t \o f : t \in shorter, f \in Fragments}

ParserInit ==
    /\ board = StartingBoard
    /\ origin = board
    /\ before = board
    /\ client = FALSE
    /\ pc = "parse"
    /\ data = NoData
    /\ move_uci = <<>>
    /\ user_move = NullMove
    /\ received = 0
    /\ legal_reply = FALSE
    /\ raised = FALSE
    /\ retries = 0
    /\ sends = 0
    /\ chats = 0
    /\ llm_called = FALSE
    /\ fallback = FALSE
    /\ llm_result = NoResult
    /\ response = NoResponse
    /\ collected = <<>>
    /\ parser_input \in Texts(MaxFragments)
    /\ chat = NoChat
    /\ ended = FALSE
    /\ parser_output = NoResult

\* llm_thoughts, llm_move_uci = parse_llm_response(llm_response_text)
Parse ==
    /\ pc = "parse"
    /\ pc' = "parsed"
    /\ parser_output' = parse_llm_response(parser_input)
    /\ UNCHANGED <<board, client, ended, chat, data, move_uci, user_move, retries, response,
                   origin, before, sends, chats, llm_called, fallback, llm_result, received,
                   legal_reply, raised, collected, parser_input>>

ParserNext == Parse

ParserSpec == ParserInit /\ [][ParserNext]_vars

\* ------------------------------------------------------------------------
\* properties
\* ------------------------------------------------------------------------

\* the /move request being answered built a token that names a legal move of
\* the board it was received on
UserMoveIsLegal == ~InvalidData(data) /\ from_uci(move_uci) \in legal_moves(before)

MoveResponded == pc = "responded" /\ response.route = "move"

\* C1: a move is pushed onto the board only if it is in the legal-move set
\* of the position it is pushed on: every move of the history, the user's
\* and the engine's, is a legal move of the position that preceded it.
C1_OnlyLegalMovesPushed ==
    \A i \in (Len(origin.move_stack) + 1)..Len(board.move_stack) :
        board.move_stack[i] \in LegalMoves(board.stack[i].pieces, board.stack[i].turn)

\* a turn in which the user's move and a fallback move were pushed
C1_Witness ==
    /\ MoveResponded /\ response.code = 200 /\ fallback
    /\ Len(board.move_stack) = Len(before.move_stack) + 2

\* C2: a /move request that is malformed (fields missing, or a token that
\* names no move) or names a move that is not legal ends as an error; the
\* board and its history are what they were, the LLM client is not called,
\* and the response carries the unchanged position.
C2_BadRequestLeavesBoard ==
    (MoveResponded /\ ~UserMoveIsLegal)
    => /\ response.code = 400
       /\ response.error # ""
       /\ board = before
       /\ chats = 0 /\ sends = 0 /\ ~llm_called /\ ~fallback
       /\ response.has_fen
       /\ response.fen = fen(before)

\* a well-formed token naming a move that is not legal, in a game under way
C2_Witness ==
    /\ MoveResponded /\ response.code = 400
    /\ ~InvalidData(data) /\ from_uci(move_uci) \notin {MoveError, NullMove}
    /\ from_uci(move_uci) \notin legal_moves(before)
    /\ Len(before.move_stack) > Len(origin.move_stack)

\* C3: when the user's move is legal the turn ends as a success, whatever
\* the LLM client did: illegal or malformed tokens, empty replies, replies
\* without a move, an exception from chats.create or from send_message.
C3_LegalMoveSucceeds ==
    (MoveResponded /\ UserMoveIsLegal) => (response.code = 200 /\ response.error = "")

\* a turn that succeeded although the LLM client raised
C3_Witness == MoveResponded /\ response.code = 200 /\ raised /\ fallback

\* the position the negotiation was held on: the board with the user's move
\* pushed and the engine's not yet
NegotiatedPosition ==
    IF Len(board.move_stack) = Len(before.move_stack) + 2
    THEN board.stack[Len(board.stack)]
    ELSE fen(board)

NegotiationResultOK ==
    (pc = "responded" /\ llm_called)
    => LET legal == LegalMoves(NegotiatedPosition.pieces, NegotiatedPosition.turn)
       IN  IF llm_result.move = NoMove THEN legal = {}
           ELSE from_uci(llm_result.move) \in legal

\* C4: every negotiation terminates (a request in get_llm_move gets its
\* response), and its result carries a move of the legal-move set of the
\* position, or no move; no move only when that set is empty.
C4_NegotiationTerminatesLegally ==
    /\ [](NegotiationResultOK)
    /\ (pc \in {"creating", "awaiting"}) ~> (pc = "responded")

\* a negotiation that went through all its messages and ended with a move
C4_Witness ==
    /\ pc = "responded" /\ llm_called /\ sends = 1 + max_retries
    /\ llm_result.move # NoMove

\* C5: in one turn at most 1 + max_retries = 4 messages are sent to the LLM,
\* one after another (a message is sent only when the reply to the one
\* before is in); when no reply carried a legal token there are exactly 4
\* sends and the result is a fallback move.
C5_AtMostFourSends ==
    /\ sends <= 1 + max_retries
    /\ sends - received \in {0, 1}
    /\ (pc = "responded" /\ llm_called /\ client /\ ~raised /\ ~legal_reply)
       => (sends = 1 + max_retries /\ received = sends /\ fallback)

\* four replies, none with a legal token, and then the fallback
C5_Witness ==
    /\ pc = "responded" /\ llm_called /\ client /\ ~raised /\ ~legal_reply
    /\ sends = 4 /\ fallback

\* the board with the user's move pushed and nothing else
AfterUserMove == push(before, user_move)

\* C6: after a /move that succeeded, the history has grown by the user's
\* move alone when the game is over after that move, and otherwise by the
\* user's move followed by one legal reply for the other side.
C6_HistoryGrowsByTurn ==
    (MoveResponded /\ response.code = 200)
    => LET n == Len(before.move_stack)
       IN  /\ Len(board.move_stack) >= n + 1
           /\ SubSeq(board.move_stack, 1, n + 1) = Append(before.move_stack, user_move)
           /\ IF is_game_over(AfterUserMove)
              THEN Len(board.move_stack) = n + 1
              ELSE /\ Len(board.move_stack) = n + 2
                   /\ board.move_stack[n + 2] \in
                          LegalMoves(AfterUserMove.pieces, ~before.turn)

\* C7: of the two failures of a /move request with both fields, a token
\* that names a move which is not legal is answered 'Illegal move', and
\* only a token that names no move is answered 'Invalid move format'.
C7_ErrorsDistinguished ==
    (MoveResponded /\ response.code = 400 /\ ~InvalidData(data))
    => IF from_uci(move_uci) = MoveError
       THEN response.error = "Invalid move format"
       ELSE response.error = "Illegal move"

\* what the final position is, by the first predicate that holds
PositionKind(b) ==
    IF is_checkmate(b) THEN "checkmate"
    ELSE IF is_stalemate(b) THEN "stalemate"
    ELSE IF is_insufficient_material(b) THEN "insufficient material"
    ELSE IF is_seventyfive_moves(b) THEN "seventy-five moves"
    ELSE IF is_fivefold_repetition(b) THEN "fivefold repetition"
    ELSE IF is_check(b) THEN "check"
    ELSE "to move"

\* what a status phrase of handle_move reports
PhraseKind(status_detail) ==
    IF status_detail = <<"STALEMATE! Draw.">> THEN "stalemate"
    ELSE IF status_detail = <<"DRAW! Insufficient material.">> THEN "insufficient material"
    ELSE IF status_detail = <<"Game Over.">> THEN "game over"
    ELSE IF Len(status_detail) = 3 /\ status_detail[1] = "CHECKMATE! " THEN "checkmate"
    ELSE IF Len(status_detail) = 2 /\ status_detail[2] = " is in CHECK!" THEN "check"
    ELSE IF Len(status_detail) = 2 /\ status_detail[2] = " to move." THEN "to move"
    ELSE "none"

\* C8: the status phrase of a turn is chosen by the first predicate that
\* holds on the final position, in the order checkmate, stalemate,
\* insufficient material, 75-move draw, fivefold repetition, check, to
\* move; a 75-move or fivefold draw is reported as that draw, also when
\* the side to move is in check.
C8_StatusByPriority ==
    (MoveResponded /\ response.code = 200)
    => PhraseKind(response.status_detail) = PositionKind(board)

\* the request names a pawn on its origin square and a destination on the
\* last rank of the pawn's direction of travel
PawnToFinalRank(b, d) ==
    \E from_sq \in SQUARES, to_sq \in SQUARES :
        /\ square_name(from_sq) = d.from
        /\ square_name(to_sq) = d.to
        /\ \/ b.pieces[from_sq] = "P" /\ square_rank(to_sq) = 7
           \/ b.pieces[from_sq] = "p" /\ square_rank(to_sq) = 0

\* C9: when the request carries a promotion hint, the hint is appended to
\* the token exactly when the piece on the origin square is a pawn moving
\* to its final rank; for any other move the token is origin plus
\* destination, and the request is answered as it is without the hint.
C9_HintOnlyForPromotion ==
    (MoveResponded /\ ~InvalidData(data) /\ data.promotion # <<>>)
    => IF PawnToFinalRank(before, data)
       THEN move_uci = data.from \o data.to \o lower(data.promotion)
       ELSE /\ move_uci = data.from \o data.to
            /\ (response.code = 400) = (from_uci(data.from \o data.to) \notin legal_moves(before))

\* a pawn promoted with the hint of the request
C9_Witness ==
    /\ MoveResponded /\ response.code = 200 /\ data.promotion # <<>>
    /\ PawnToFinalRank(before, data)
    /\ user_move.promotion = data.promotion[1]

\* the starting position as /reset and /get_fen serialise it
StartingFen ==
    [pieces |-> StartingPieces, turn |-> WHITE, halfmove_clock |-> 0, fullmove_number |-> 1]

\* C10: /reset answers, after any moves, with the starting position, and
\* leaves the board with an empty history; a reset of a board that has
\* just been reset changes nothing and answers the same.
C10_ResetToStart ==
    (pc = "responded" /\ response.route = "reset")
    => /\ response.code = 200 /\ response.has_fen
       /\ response.fen = StartingFen
       /\ fen(board) = StartingFen
       /\ board.move_stack = <<>> /\ board.stack = <<>> /\ board.prior = 0
       /\ (fen(before) = StartingFen /\ before.move_stack = <<>> /\ before.prior = 0)
          => board = before

\* a reset of a game in which moves have been played
C10_Witness ==
    /\ pc = "responded" /\ response.route = "reset"
    /\ before.move_stack # <<>> /\ fen(before) # StartingFen

\* C11: when the LLM client is unavailable (client is None), the negotiation
\* creates no session and sends no message: the fallback is called at once,
\* and the result is a fallback move with the fixed text of a fallback
\* without thoughts.
C11_NoClientNoRoundTrip ==
    /\ ~client => pc \notin {"creating", "awaiting"}
    /\ (MoveResponded /\ llm_called /\ ~client)
       => /\ chats = 0 /\ sends = 0 /\ received = 0
          /\ fallback
          /\ llm_result.thoughts = AnalysisNotAvailable \o ChoosingRandomly
          /\ llm_result.move # NoMove
          /\ from_uci(llm_result.move)
                \in LegalMoves(NegotiatedPosition.pieces, NegotiatedPosition.turn)
          /\ response.llm_thoughts = llm_result.thoughts

\* a turn answered by the fallback, there being no client
C11_Witness ==
    /\ MoveResponded /\ response.code = 200 /\ llm_called /\ ~client /\ fallback
    /\ Len(board.move_stack) = Len(before.move_stack) + 2

\* C12: every reply of the LLM in a negotiation, the initial one and the
\* reply to each of the corrections, is parsed and validated: when the token
\* of one of them is legal on the board, the negotiation returns that token
\* with the thoughts of the reply, and the fallback is not called.
C12_AnyLegalReplyAccepted ==
    (MoveResponded /\ llm_called /\ legal_reply)
    => /\ ~fallback
       /\ llm_result.move # NoMove
       /\ from_uci(llm_result.move)
             \in LegalMoves(NegotiatedPosition.pieces, NegotiatedPosition.turn)
       /\ llm_result \in {parse_llm_response(said \o llm_result.move) :
                            said \in {<<>>, Rationale \o <<"\n">>}}

\* C13: when the LLM client raises an exception in a negotiation, the result
\* is a fallback move whose thoughts are the thoughts collected from the
\* replies received before the exception, with the note of the fallback; the
\* text "AI analysis not available." stands there only when no reply had
\* supplied thoughts.
C13_ExceptionKeepsThoughts ==
    (MoveResponded /\ llm_called /\ raised)
    => /\ fallback
       /\ llm_result.thoughts
            = (IF collected # <<>> THEN collected ELSE AnalysisNotAvailable) \o ChoosingRandomly

\* C14: when the retries are used up, the thoughts of the fallback result are
\* the thoughts last supplied by a reply of this negotiation, a rejected one
\* included, followed by the note of the fallback; one of the texts that stand
\* for missing thoughts is there only when no reply supplied thoughts.
C14_ExhaustionKeepsLatestThoughts ==
    (MoveResponded /\ llm_called /\ client /\ fallback /\ ~raised)
    => /\ received = 1 + max_retries
       /\ llm_result.thoughts
            \in {said \o ChoosingRandomly :
                   said \in (IF collected # <<>> THEN {collected}
                             ELSE {AnalysisNotAvailable, NoThoughtsProvided, ResponseWasEmpty})}

\* the lines of a text that are not blank, without the blanks around them
NonEmptyLines(text) ==
    LET lines == splitlines(text)
    IN  SelectSeq([i \in 1..Len(lines) |-> strip(lines[i])], LAMBDA line : line # <<>>)

\* the text without the blanks and line breaks around it
Trimmed(text) ==
    IF \A i \in 1..Len(text) : IsSpace(text[i]) THEN <<>>
    ELSE LET first == CHOOSE i \in 1..Len(text) :
                         ~IsSpace(text[i]) /\ \A j \in 1..(i - 1) : IsSpace(text[j])
             last == CHOOSE i \in 1..Len(text) :
                         ~IsSpace(text[i]) /\ \A j \in (i + 1)..Len(text) : IsSpace(text[j])
         IN  SubSeq(text, first, last)

\* the line breaks of a text
LineBreaks(text) == {i \in 1..Len(text) : text[i] = "\n"}

\* the text before the last line that is not blank, trimmed
BeforeLastLine(text) ==
    LET t == Trimmed(text)
    IN  IF LineBreaks(t) = {} THEN <<>>
        ELSE Trimmed(SubSeq(t, 1, (CHOOSE i \in LineBreaks(t) : \A j \in LineBreaks(t) : j <= i) - 1))

\* a move token: a file, a rank, a file, a rank and, at most, a promotion piece
IsMoveToken(line) ==
    \E f1 \in FileChars, r1 \in RankChars, f2 \in FileChars, r2 \in RankChars :
        line \in {<<f1, r1, f2, r2>>} \cup {<<f1, r1, f2, r2, p>> : p \in PromotionChars}

\* what C15 has parse_llm_response return for a text
ParsedAsSpecified(text) ==
    LET lines == NonEmptyLines(text)
    IN  IF lines = <<>>
        THEN [thoughts |-> ResponseWasEmpty, move |-> NoMove]
        ELSE IF IsMoveToken(lines[Len(lines)])
        THEN [thoughts |-> IF Len(lines) = 1 THEN NoThoughtsProvided ELSE BeforeLastLine(text),
              move |-> lines[Len(lines)]]
        ELSE [thoughts |-> Trimmed(text), move |-> NoMove]

\* C15: parse_llm_response returns for every text: for a text with no
\* non-empty line "(LLM response was empty)" and no move; when the last
\* non-empty line is a move token, that line as the move and the lines before
\* it joined as thoughts ("(No thoughts provided, only move)" when it is the
\* only line); otherwise the whole text as thoughts and no move.
C15_ParserTotal ==
    pc = "parsed" => parser_output = ParsedAsSpecified(parser_input)

\* C16: parse_llm_response matches the move token without regard to case and
\* returns it in lowercase: when the last non-empty line of the text spells a
\* move token, in lowercase or uppercase letters, the move returned is that
\* line in lowercase.
C16_ParserIgnoresCase ==
    (pc = "parsed" /\ NonEmptyLines(parser_input) # <<>>)
    => LET lines == NonEmptyLines(parser_input)
           line == lines[Len(lines)]
       IN  IsMoveToken(lower(line)) => parser_output.move = lower(line)

\* C17: the messages of one negotiation, the initial prompt and every
\* correction, are sent over one session, created once for the turn: one call
\* of chats.create at most, and the session holds the messages of this turn
\* and no others.  No session goes from one turn to the next: a request
\* starts without a session.
C17_OneSessionPerTurn ==
    /\ chats <= 1
    /\ pc \in {"idle", "creating"} => chat = NoChat
    /\ chat.created => chats = 1
    /\ sends > 0
       => /\ chat.created
          /\ chat.history
               = <<"initial_prompt">> \o [i \in 1..(sends - 1) |-> "correction_prompt"]

\* a negotiation with the initial prompt and three corrections
C17_Witness ==
    pc = "responded" /\ sends = 1 + max_retries /\ Len(chat.history) = 1 + max_retries

\* C18: while a /move request is between the push of the user's move and
\* the push of the engine's move, blocked in a call of the LLM client, no
\* other request changes the board: the board is the one the request was
\* received on with the user's move pushed, and the engine's move is pushed on
\* that position.
C18_OneTurnInFlight ==
    /\ pc \in {"creating", "awaiting"} => board = AfterUserMove
    /\ (MoveResponded /\ response.code = 200 /\ llm_called)
       => \/ board = AfterUserMove
          \/ /\ llm_result.move # NoMove
             /\ board = push(AfterUserMove, from_uci(llm_result.move))

\* C19: once a /move has returned game_over = true, every later /move leaves
\* the board and its move stack as they are, and none returns
\* game_over = false, until /reset.
C19_GameOverTerminal ==
    (ended /\ (MoveResponded \/ pc \in {"creating", "awaiting"}))
    => /\ board = before
       /\ (MoveResponded /\ response.code = 200) => response.game_over
====
